---- MODULE Spec2Model ----
(***************************************************************************)
(* The dashboard's REST data store (dashboard/src/context/data.tsx).       *)
(*                                                                         *)
(* useApi() keeps one Store in a React state hook.  Every change is a      *)
(* functional update setData(prevState => updateSlice(prevState, ...)).    *)
(* The model keeps:                                                        *)
(*   state : the value held by the hook, the prevState the next functional *)
(*           update receives (every setData issued so far is applied);     *)
(*   store : the value `const [store, setData] = useState(...)` returned   *)
(*           at the latest render.  It is what the context exposes and     *)
(*           what the load closures made by that render read;              *)
(* renders : for each slice, the values store[key] has had in the renders  *)
(*           so far: the load closures of an earlier render stay callable  *)
(*           and read that render's store.                                 *)
(* A render copies state into store.  When React renders relative to the   *)
(* setData calls depends on the caller (batched in event handlers and      *)
(* effects, synchronous or scheduled elsewhere), so Render is an action of *)
(* its own that may happen at any point.                                   *)
(***************************************************************************)
EXTENDS Integers, Sequences, FiniteSets, TLC

VARIABLES
    state,      \* Store held by the useState hook (prevState of the next update)
    store,      \* Store captured by the closures of the latest render
    renders,    \* per slice, store[key] in the closures of all renders so far
    fetches,    \* the calls of fetch() so far, in start order
    last,       \* the latest operation (history, for stating the properties)
    upd         \* inputs and output of one stand-alone updateSlice application

vars == <<state, store, renders, fetches, last, upd>>

(* Bounds of the model *)
MaxFetch == 2       \* fetch() calls in one behaviour
MaxVal == 2         \* distinct response objects a fetchFn resolves with
MaxErr == 1         \* distinct Error objects a fetchFn rejects with
MaxUpd == 1         \* distinct data objects in the stand-alone partial updates

Null == 0
Values == 1..MaxVal
Errors == 1..MaxErr

sliceNames == {"config", "status", "graph", "logs"}

initialSlice == [data |-> Null, loading |-> FALSE, error |-> Null]

initialState == [key \in sliceNames |-> initialSlice]

(* Variant of updateSlice that builds the store anew around the slice *)
updateSliceFresh(prevState, key, sliceState) ==
    [k \in sliceNames |->
        IF k = key
        THEN [f \in (DOMAIN prevState[key]) \cup (DOMAIN sliceState) |->
                 IF f \in DOMAIN sliceState THEN sliceState[f] ELSE prevState[key][f]]
        ELSE initialSlice]

(* { ...prevState, [key]: { ...prevSliceState, ...sliceState } } *)
updateSlice(prevState, key, sliceState) ==
    [prevState EXCEPT ![key] =
        [f \in (DOMAIN prevState[key]) \cup (DOMAIN sliceState) |->
            IF f \in DOMAIN sliceState THEN sliceState[f] ELSE prevState[key][f]]]

(* JavaScript truthiness of a slice's data: the responses are objects,     *)
(* so only null is falsy.                                                  *)
Truthy(data) == data # Null

(* Variants of the early return: without the force test, with an added    *)
(* error test.                                                             *)
ShouldSkipForced(force, slice) == Truthy(slice.data) \/ slice.loading

ShouldSkipOnError(force, slice) ==
    ~force /\ (Truthy(slice.data) \/ slice.loading \/ slice.error # Null)

(* The early return of fetchOrReadFromStore: !force && (data || loading) *)
ShouldSkip(force, slice) == ~force /\ (Truthy(slice.data) \/ slice.loading)

(* Variants of the updates of fetch(): a loading flag that is only ever    *)
(* set, a result stored without clearing the error, a result kept only     *)
(* when the slice holds none, an error that drops the data.                *)
setLoadingOn(prevState, key, flag) == updateSlice(prevState, key, [loading |-> TRUE])

setResultOnly(prevState, key, res) == updateSlice(prevState, key, [data |-> res])

setResultIfEmpty(prevState, key, res) ==
    IF prevState[key].data # Null
    THEN updateSlice(prevState, key, [error |-> Null])
    ELSE updateSlice(prevState, key, [data |-> res, error |-> Null])

setErrorDropData(prevState, key, error) ==
    updateSlice(prevState, key, [data |-> Null, error |-> error])

(* Further variants: an error stored into a store built anew, a loading   *)
(* update that also clears the error, a result or an error stored together *)
(* with loading: false.                                                    *)
setErrorFresh(prevState, key, error) == updateSliceFresh(prevState, key, [error |-> error])

setLoadingReset(prevState, key, flag) ==
    updateSlice(prevState, key, [loading |-> flag, error |-> Null])

setResultAndDone(prevState, key, res) ==
    updateSlice(prevState, key, [data |-> res, error |-> Null, loading |-> FALSE])

setErrorAndDone(prevState, key, error) ==
    updateSlice(prevState, key, [error |-> error, loading |-> FALSE])

(* A loading update that drops the data while the slice reloads *)
setLoadingDropData(prevState, key, flag) ==
    updateSlice(prevState, key, [loading |-> flag, data |-> IF flag THEN Null ELSE prevState[key].data])

(* The three kinds of update fetch() issues:                               *)
(* { loading: flag }, { data: res, error: null }, { error }                *)
setLoading(prevState, key, flag) == updateSlice(prevState, key, [loading |-> flag])

setResult(prevState, key, res) == updateSlice(prevState, key, [data |-> res, error |-> Null])

setError(prevState, key, error) == updateSlice(prevState, key, [error |-> error])

(* interface StoreSlice / Store: the values the two stores range over *)
Slices == [data : {Null} \cup Values, loading : BOOLEAN, error : {Null} \cup Errors]

TypeOK ==
    /\ state \in [sliceNames -> Slices]
    /\ store \in [sliceNames -> Slices]
    /\ \A key \in sliceNames : store[key] \in renders[key] /\ renders[key] \subseteq Slices
    /\ \A i \in 1..Len(fetches) :
           /\ fetches[i].key \in sliceNames
           /\ fetches[i].pc \in {"await", "finally", "done"}

Ids == 1..Len(fetches)

IdsOf(key) == {i \in Ids : fetches[i].key = key}

(* fetch() calls that have not run to their end *)
InFlight(key) == {i \in IdsOf(key) : fetches[i].pc # "done"}

(* A continuation of fetch() is between its two updates: no other         *)
(* continuation runs before it ends; a synchronous render, and the load    *)
(* calls of the consumer code it runs, can come in between.                *)
Running == \E i \in Ids : fetches[i].pc = "finally"

(* The record kept of the latest operation: before is the slice in the    *)
(* hook's state when it began, fresh tells that the slice a load read at   *)
(* line 99 was that slice.                                                 *)
Op(op, key, force, started, id, ok, res, before, fresh) ==
    [op |-> op, key |-> key, force |-> force, started |-> started, id |-> id,
     ok |-> ok, res |-> res, before |-> before, fresh |-> fresh]

(* No stand-alone updateSlice application is under way *)
idle == [done |-> FALSE, prevState |-> initialState, key |-> "config",
         sliceState |-> [loading |-> FALSE], out |-> initialState]

(* Inputs of updateSlice: slices, stores, and partial slice states.  A     *)
(* partial holds any subset of the fields; d, l, e select each field's     *)
(* value, -1 leaving the field out.                                        *)
USlices == [data : {Null, 1}, loading : BOOLEAN, error : {Null, 1}]

UStores == [sliceNames -> USlices]

Partial(d, l, e) ==
    [f \in {g \in {"data", "loading", "error"} :
                \/ g = "data" /\ d >= 0
                \/ g = "loading" /\ l >= 0
                \/ g = "error" /\ e >= 0} |->
        CASE f = "data" -> d
          [] f = "loading" -> (l = 1)
          [] f = "error" -> e]

UPartials == {Partial(d, l, e) : d \in -1..MaxUpd, l \in -1..1, e \in -1..1}

Init ==
    /\ state = initialState
    /\ store = initialState
    /\ renders = [key \in sliceNames |-> {initialSlice}]
    /\ fetches = <<>>
    /\ last = Op("init", "config", FALSE, FALSE, 0, FALSE, Null, initialSlice, FALSE)
    /\ upd = idle

(* The record of a fetch() call that has just been started.  stale: the    *)
(* call came from a non-forced load that would have returned early on the  *)
(* hook's current slice.                                                   *)
NewFetch(key, force) ==
    [key |-> key, pc |-> "await", ok |-> FALSE, res |-> Null, before |-> initialSlice,
     stale |-> ShouldSkip(force, state[key])]

(* Variant of Load whose loading update is computed from the rendered      *)
(* store instead of the prevState handed to the updater.                   *)
LoadStale(seen, key, force) ==
    /\ seen \in renders[key]
    /\ IF ShouldSkip(force, seen)
       THEN /\ last' = Op("load", key, force, FALSE, 0, FALSE, Null, state[key],
                          seen = state[key])
            /\ UNCHANGED <<state, store, renders, fetches, upd>>
       ELSE /\ Len(fetches) < MaxFetch
            /\ state' = setLoading(store, key, TRUE)
            /\ fetches' = Append(fetches, NewFetch(key, force))
            /\ last' = Op("load", key, force, TRUE, Len(fetches) + 1, FALSE, Null,
                          state[key], seen = state[key])
            /\ UNCHANGED <<store, renders, upd>>

(* loadConfig/loadLogs/loadGraph/loadStatus(force) = fetchOrReadFromStore, *)
(* up to the first await of fetch(): the guard, the loading update, the    *)
(* call of fetchFn.  Every render makes new load closures over the store   *)
(* of that render and the earlier ones stay callable: `seen` is store[key] *)
(* of the render the called action comes from, the only part of its store  *)
(* the call reads (line 99).  A call can also come while a continuation of *)
(* fetch() is between its two updates (from consumer code run by a         *)
(* synchronous render inside setData).  fetch() catches what fetchFn       *)
(* throws or rejects with, so the promise it returns does not reject and   *)
(* the .catch of line 103 issues no update.                                *)
Load(seen, key, force) ==
    /\ seen \in renders[key]
    /\ IF ShouldSkip(force, seen)
       THEN /\ last' = Op("load", key, force, FALSE, 0, FALSE, Null, state[key],
                          seen = state[key])
            /\ UNCHANGED <<state, store, renders, fetches, upd>>
       ELSE /\ Len(fetches) < MaxFetch
            /\ state' = setLoading(state, key, TRUE)
            /\ fetches' = Append(fetches, NewFetch(key, force))
            /\ last' = Op("load", key, force, TRUE, Len(fetches) + 1, FALSE, Null,
                          state[key], seen = state[key])
            /\ UNCHANGED <<store, renders, upd>>

(* fetchFn() resolved with res: the try branch *)
Resolve(i, res) ==
    /\ ~Running
    /\ fetches[i].pc = "await"
    /\ state' = setResult(state, fetches[i].key, res)
    /\ fetches' = [fetches EXCEPT ![i].pc = "finally", ![i].ok = TRUE, ![i].res = res,
                                  ![i].before = state[fetches[i].key]]
    /\ last' = Op("resolve", fetches[i].key, FALSE, FALSE, i, TRUE, res,
                  state[fetches[i].key], FALSE)
    /\ UNCHANGED <<store, renders, upd>>

(* fetchFn() rejected with error: the catch branch *)
Reject(i, error) ==
    /\ ~Running
    /\ fetches[i].pc = "await"
    /\ state' = setError(state, fetches[i].key, error)
    /\ fetches' = [fetches EXCEPT ![i].pc = "finally", ![i].ok = FALSE, ![i].res = error,
                                  ![i].before = state[fetches[i].key]]
    /\ last' = Op("reject", fetches[i].key, FALSE, FALSE, i, FALSE, error,
                  state[fetches[i].key], FALSE)
    /\ UNCHANGED <<store, renders, upd>>

(* the update after the try/catch: loading: false.  `last` keeps what the  *)
(* slice held just before the fetch settled.                               *)
Finish(i) ==
    /\ fetches[i].pc = "finally"
    /\ state' = setLoading(state, fetches[i].key, FALSE)
    /\ fetches' = [fetches EXCEPT ![i].pc = "done", ![i].ok = FALSE, ![i].res = Null,
                                  ![i].before = initialSlice]
    /\ last' = Op("finish", fetches[i].key, FALSE, FALSE, i, fetches[i].ok,
                  fetches[i].res, fetches[i].before, FALSE)
    /\ UNCHANGED <<store, renders, upd>>

(* React renders: useState returns the hook's state, the new closures see  *)
(* it, the closures of the earlier renders keep their stores.              *)
Render ==
    /\ store # state
    /\ store' = state
    /\ renders' = [key \in sliceNames |-> renders[key] \cup {state[key]}]
    /\ UNCHANGED <<state, fetches, last, upd>>

Next ==
    \/ \E key \in sliceNames, force \in BOOLEAN :
           \E seen \in renders[key] : Load(seen, key, force)
    \/ \E i \in Ids, res \in Values : Resolve(i, res)
    \/ \E i \in Ids, error \in Errors : Reject(i, error)
    \/ \E i \in Ids : Finish(i)
    \/ Render

Spec == Init /\ [][Next]_vars

(* Every started fetch settles (fetchFn resolves or rejects), the          *)
(* continuation of fetch() runs to its end, and React renders after a      *)
(* state change.                                                           *)
Settle ==
    \E i \in Ids :
        \/ \E res \in Values : Resolve(i, res)
        \/ \E error \in Errors : Reject(i, error)

Complete == \E i \in Ids : Finish(i)

SpecLive ==
    Init /\ [][Next]_vars /\ WF_vars(Settle) /\ WF_vars(Complete) /\ WF_vars(Render)

(* Only the non-forced load actions are used *)
NextUnforced ==
    \/ \E key \in sliceNames : \E seen \in renders[key] : Load(seen, key, FALSE)
    \/ \E i \in Ids, res \in Values : Resolve(i, res)
    \/ \E i \in Ids, error \in Errors : Reject(i, error)
    \/ \E i \in Ids : Finish(i)
    \/ Render

SpecUnforced == Init /\ [][NextUnforced]_vars

(* updateSlice on its own: any store, any slice name, any partial update *)
InitUpdate ==
    /\ state = initialState
    /\ store = initialState
    /\ renders = [key \in sliceNames |-> {initialSlice}]
    /\ fetches = <<>>
    /\ last = Op("init", "config", FALSE, FALSE, 0, FALSE, Null, initialSlice, FALSE)
    /\ upd \in {[idle EXCEPT !.prevState = s] : s \in UStores}

Apply(key, sliceState) ==
    /\ ~upd.done
    /\ upd' = [done |-> TRUE, prevState |-> upd.prevState, key |-> key,
               sliceState |-> sliceState,
               out |-> updateSlice(upd.prevState, key, sliceState)]
    /\ UNCHANGED <<state, store, renders, fetches, last>>

NextUpdate == \E key \in sliceNames, sliceState \in UPartials : Apply(key, sliceState)

SpecUpdate == InitUpdate /\ [][NextUpdate]_vars

(***************************************************************************)
(* Properties                                                              *)
(***************************************************************************)

(* The fetch a load action has just started *)
Started(key) ==
    /\ Len(fetches') = Len(fetches) + 1
    /\ fetches'[Len(fetches')].key = key
    /\ fetches'[Len(fetches')].pc = "await"
    /\ \A i \in Ids : fetches'[i] = fetches[i]

(* C1: when only non-forced load actions are used, at most one fetch per   *)
(* slice is in flight at any time; two loadConfig() calls in a row from    *)
(* the initial store, with no render in between, call fetchFn once.        *)
(* Both calls read the same rendered store, so both start a fetch.         *)
C1_OneFetchInFlight == \A key \in sliceNames : Cardinality(InFlight(key)) <= 1

(* C2: in every reachable state in which a slice's loading flag is true    *)
(* (in the hook's state and in the latest rendered store), a non-forced    *)
(* load of that slice starts no fetch and leaves the store unchanged.      *)
(* A load action made by an earlier render reads that render's store.      *)
C2_LoadingSkips ==
    [][\A key \in sliceNames : \A seen \in renders[key] :
          (state[key].loading /\ store[key].loading /\ Load(seen, key, FALSE))
              => UNCHANGED <<state, store, fetches>>]_vars

(* C3: in every reachable state in which a slice's data is non-null (in    *)
(* the hook's state and in the latest rendered store), a non-forced load   *)
(* of that slice calls fetchFn zero times and leaves the store unchanged.  *)
C3_DataSkips ==
    [][\A key \in sliceNames : \A seen \in renders[key] :
          (state[key].data # Null /\ store[key].data # Null
                /\ Load(seen, key, FALSE))
              => UNCHANGED <<state, store, fetches>>]_vars

(* C4: a forced load calls fetchFn exactly once, whatever the slice holds  *)
(* and whether or not a fetch for it is in flight, through the load action *)
(* of any render.                                                          *)
C4_ForceFetches ==
    [][\A key \in sliceNames : \A seen \in renders[key] :
          Load(seen, key, TRUE) => Started(key)]_vars

C4_Witness ==
    /\ last.op = "load" /\ last.force /\ last.started
    /\ last.fresh
    /\ last.before.loading
    /\ store[last.key].loading
    /\ state[last.key].loading
    /\ Cardinality(InFlight(last.key)) = 2

(* C5: once the completion updates of a fetch that resolved with V are     *)
(* applied, the slice is {data: V, error: null, loading: false}, whatever  *)
(* it held before.                                                         *)
C5_SuccessState ==
    (last.op = "finish" /\ last.ok)
        => state[last.key] = [data |-> last.res, error |-> Null, loading |-> FALSE]

C5_Witness ==
    /\ last.op = "finish" /\ last.ok
    /\ last.before.error # Null
    /\ state[last.key].data = last.res
    /\ store = state

(* C6: once the completion updates of a fetch that rejected with E are     *)
(* applied, the slice is {data: as just before the rejection, error: E,    *)
(* loading: false}.                                                        *)
C6_FailureState ==
    (last.op = "finish" /\ ~last.ok)
        => state[last.key] =
               [data |-> last.before.data, error |-> last.res, loading |-> FALSE]

C6_Witness ==
    /\ last.op = "finish" /\ ~last.ok
    /\ last.before.data # Null
    /\ state[last.key].data = last.before.data
    /\ state[last.key].error = last.res
    /\ store = state

(* C7, as stated: after a failed fetch (error set, loading false) a        *)
(* non-forced load never calls fetchFn again; here for a load action that  *)
(* reads the slice as it is in the hook's state.                           *)
C7_NoRetryUnforced ==
    [][\A key \in sliceNames :
          (state[key].error # Null /\ ~state[key].loading
                /\ state[key] \in renders[key] /\ Load(state[key], key, FALSE))
              => fetches' = fetches]_vars

(* C7, amended: a non-forced load whose store has the slice's error set    *)
(* and loading false is a no-op only when that store holds data for the    *)
(* slice; when its data is null it starts a new fetch, so a retry needs    *)
(* force=true only for a slice that holds data.                            *)
C7_RetryUnlessData ==
    [][\A key \in sliceNames : \A seen \in renders[key] :
          (seen.error # Null /\ ~seen.loading /\ Load(seen, key, FALSE))
              => IF seen.data # Null
                 THEN UNCHANGED <<state, store, fetches>>
                 ELSE Started(key)]_vars

C7_Witness ==
    /\ last.op = "load" /\ ~last.force /\ last.started
    /\ last.fresh
    /\ last.before.error # Null
    /\ ~last.before.loading
    /\ last.before.data = Null

(* C8: in the hook's state a slice with loading=true has a fetch() call    *)
(* that was started and has not run to its end.                            *)
C8_LoadingHasFetch ==
    \A key \in sliceNames : state[key].loading => InFlight(key) # {}

C8_Witness ==
    \E key \in sliceNames :
        /\ state[key].loading
        /\ store[key].loading
        /\ \E i \in InFlight(key) : fetches[i].pc = "finally"

(* C9: with two fetches of one slice in flight together, the slice ends in *)
(* the state of the fetch that settles last, whichever was started first.  *)
C9_LastSettledWins ==
    (last.op = "finish" /\ InFlight(last.key) = {} /\ Cardinality(IdsOf(last.key)) >= 2)
        => /\ ~state[last.key].loading
           /\ state[last.key].error = (IF last.ok THEN Null ELSE last.res)
           /\ last.ok => state[last.key].data = last.res

(* the fetch started first settled last and replaced the later one's data *)
C9_Witness ==
    /\ last.op = "finish" /\ last.ok
    /\ \E j \in IdsOf(last.key) : j > last.id /\ fetches[j].pc = "done"
    /\ last.before.data # Null
    /\ last.before.data # last.res
    /\ state[last.key].data = last.res

(* C10: updateSlice returns a store whose three other slices are those of  *)
(* the input store, and the input store is left as it was.                 *)
C10_OtherSlicesKept ==
    upd.done =>
        /\ DOMAIN upd.out = sliceNames
        /\ \A k \in sliceNames \ {upd.key} : upd.out[k] = upd.prevState[k]

C10_Witness ==
    /\ upd.done
    /\ upd.out[upd.key] # upd.prevState[upd.key]
    /\ \A k \in sliceNames \ {upd.key} : upd.prevState[k] # initialSlice

(* C11: a failed fetch of slice S records the error in S.error and leaves  *)
(* data, loading and error of the three other slices as they were, at the  *)
(* rejection and at the loading: false update that follows it; the load    *)
(* action that started the fetch has returned long before.                 *)
C11_FailureScoped ==
    [][(\A i \in Ids, error \in Errors :
           Reject(i, error)
               => /\ state'[fetches[i].key].error = error
                  /\ \A k \in sliceNames \ {fetches[i].key} : state'[k] = state[k])
       /\
       (\A j \in Ids :
           (Finish(j) /\ ~fetches[j].ok)
               => /\ state'[fetches[j].key].error = fetches[j].res
                  /\ \A k \in sliceNames \ {fetches[j].key} : state'[k] = state[k])]_vars

C11_Witness ==
    /\ last.op = "finish" /\ ~last.ok
    /\ state[last.key].error = last.res
    /\ \E k \in sliceNames \ {last.key} : state[k].loading /\ InFlight(k) # {}

(* C12: the updates of one fetch are applied in program order: starting it *)
(* gives a state with loading=true, then its result or error is stored     *)
(* with loading untouched, then loading=false is applied with data and     *)
(* error untouched; loadConfig() from the initial store passes through     *)
(* {data: null, loading: true} and ends in {data: V, error: null,          *)
(* loading: false}.                                                        *)
C12_ProgramOrder ==
    [][\A i \in 1..Len(fetches') :
          LET key == fetches'[i].key
              old == state[key]
              new == state'[key]
          IN  IF i \notin Ids
              THEN /\ fetches'[i].pc = "await"
                   /\ new = [old EXCEPT !.loading = TRUE]
              ELSE (fetches'[i].pc # fetches[i].pc) =>
                   \/ /\ fetches[i].pc = "await"
                      /\ fetches'[i].pc = "finally"
                      /\ new = IF fetches'[i].ok
                               THEN [old EXCEPT !.data = fetches'[i].res, !.error = Null]
                               ELSE [old EXCEPT !.error = fetches'[i].res]
                   \/ /\ fetches[i].pc = "finally"
                      /\ fetches'[i].pc = "done"
                      /\ new = [old EXCEPT !.loading = FALSE]]_vars

C12_Witness ==
    /\ last.op = "finish" /\ last.ok /\ last.key = "config"
    /\ Len(fetches) = 1
    /\ last.before = [data |-> Null, loading |-> TRUE, error |-> Null]
    /\ state["config"] = [data |-> last.res, error |-> Null, loading |-> FALSE]

(* C13: if every started fetch eventually settles, a slice whose loading   *)
(* flag is true eventually has loading=false again, in the hook's state    *)
(* and in the rendered store.                                              *)
C13_LoadingClears ==
    \A key \in sliceNames :
        /\ state[key].loading ~> ~state[key].loading
        /\ store[key].loading ~> ~store[key].loading

C13_Witness ==
    /\ last.op = "finish"
    /\ last.before.loading
    /\ \A i \in Ids : fetches[i].pc = "done"
    /\ ~state[last.key].loading
    /\ store = state

(* C14: starting a fetch only sets the loading flag of its slice: data and *)
(* error of that slice (and the other slices) stay as they were, and an    *)
(* error stays set during a retry until a fetch of the slice resolves.     *)
C14_StartSetsLoadingOnly ==
    [][\A key \in sliceNames :
          /\ Started(key) => state' = [state EXCEPT ![key].loading = TRUE]
          /\ (state[key].error # Null /\ state'[key].error = Null)
                 => (last'.op = "resolve" /\ last'.key = key)]_vars

C14_Witness ==
    /\ last.op = "load" /\ last.started
    /\ last.before.error # Null
    /\ ~last.before.loading
    /\ state[last.key] = [last.before EXCEPT !.loading = TRUE]

(* What an operation on a slice makes of that slice, from the slice alone *)
Own(slice, op) ==
    CASE op.op = "load" /\ op.started -> [slice EXCEPT !.loading = TRUE]
      [] op.op = "resolve" -> [slice EXCEPT !.data = op.res, !.error = Null]
      [] op.op = "reject" -> [slice EXCEPT !.error = op.res]
      [] op.op = "finish" -> [slice EXCEPT !.loading = FALSE]
      [] OTHER -> slice

(* C15: fetches of different slices do not interfere: under every          *)
(* interleaving each update changes the slice of its own fetch only, and   *)
(* makes of it what it would make of it with no other slice's fetch        *)
(* running, so every slice ends as its own fetches alone leave it and no   *)
(* update is lost to an update of another slice.                           *)
C15_SlicesIndependent ==
    [][state' # state =>
          \A k \in sliceNames :
              state'[k] = IF k = last'.key THEN Own(state[k], last') ELSE state[k]]_vars

C15_Witness ==
    /\ last.op = "finish" /\ last.id = 1 /\ last.ok
    /\ Len(fetches) = 2
    /\ fetches[2].key # last.key
    /\ fetches[2].pc = "done"
    /\ state[last.key] = [data |-> last.res, error |-> Null, loading |-> FALSE]
    /\ state[fetches[2].key].error # Null
    /\ ~state[fetches[2].key].loading

(* C16, as stated: while a fetch of a slice is in flight (its loading=true *)
(* update applied) the slice's loading flag is true; here for slices whose *)
(* fetches were all started by a forced load or by a non-forced load that  *)
(* the hook's current slice would have let through.                        *)
C16_InFlightLoading ==
    \A key \in sliceNames :
        (InFlight(key) # {} /\ \A i \in IdsOf(key) : ~fetches[i].stale)
            => state[key].loading

(* C16, amended: the start of a fetch sets the slice's loading flag, and   *)
(* the flag stays true until a fetch of that slice completes; the first    *)
(* completion clears it, also when another fetch of the slice is still     *)
(* in flight.                                                              *)
C16_LoadingUntilCompletion ==
    [][\A key \in sliceNames :
          /\ Started(key) => state'[key].loading
          /\ (state[key].loading /\ ~state'[key].loading)
                 => /\ last'.op = "finish"
                    /\ last'.key = key
                    /\ last'.id \in InFlight(key)
                    /\ fetches'[last'.id].pc = "done"]_vars

C16_Witness ==
    /\ last.op = "finish"
    /\ \A i \in IdsOf(last.key) : ~fetches[i].stale
    /\ last.before.loading
    /\ ~state[last.key].loading
    /\ \E i \in InFlight(last.key) : fetches[i].pc = "await"

(* C17: fetchFn resolving with non-null values only, a slice's data is     *)
(* never reset to null: once non-null it stays non-null, in the hook's     *)
(* state and in the rendered store, under any loads and fetch outcomes.    *)
C17_DataStays ==
    [][\A key \in sliceNames :
          /\ state[key].data # Null => state'[key].data # Null
          /\ store[key].data # Null => store'[key].data # Null]_vars

C17_Witness ==
    /\ last.op = "load" /\ last.force /\ last.started
    /\ last.before.data # Null
    /\ state[last.key].loading
    /\ state[last.key].data = last.before.data
    /\ store[last.key].data = last.before.data

====
